---- MODULE Spec2Model ----
(***************************************************************************)
(* A model of the day planner of ai-routine-optimizer (src/scheduler.py).  *)
(* One call of plan_day is a state machine: the arguments are chosen in    *)
(* Init, and each action is one statement group of the function body.     *)
(* Timestamps are minutes counted from midnight of the reference day that  *)
(* dateutil's parser gives to a text without a date.                       *)
(***************************************************************************)
EXTENDS Integers, Sequences, FiniteSets, TLC

VARIABLES
    wake_time,    \* argument: the wake text
    sleep_time,   \* argument: the sleep text
    tasks,        \* the caller's list object (argument)
    break_every,  \* argument
    break_len,    \* argument
    start,        \* local: parsed wake time
    end,          \* local: parsed sleep time, after the rollover
    sorted_tasks, \* local: the name tasks after line 23 (a new list)
    i,            \* position of the for loop in sorted_tasks (1-based)
    cur,          \* local: the cursor
    focus,        \* local: the focus counter
    plan,         \* local: the list of Block that is returned
    pc,           \* control point of the call
    origin,       \* history: for plan[k], the input index of its task, 0 for a break, -1 for the buffer
    dropped,      \* history: the tasks that did not fit, each with the cursor it was tried at
    table,        \* the list format_blocks returned for the plan
    first,        \* history: the arguments and the result of the first of several calls
    client,       \* src/app.py: TRUE iff a Groq client exists (a key is configured)
    cache,        \* src/app.py: what st.cache_data holds for list_models
    session_model,\* src/app.py: st.session_state["_groq_model"], None if absent
    ai_pc,        \* control point of ai_reply
    available,    \* ai_reply local
    model,        \* ai_reply local
    tried,        \* ai_reply local
    reply,        \* what ai_reply returned
    requests,     \* history: the completion requests of this call, with their outcomes
    list_calls,   \* history: the calls of list_models in this call
    chosen        \* history: the last evaluation of choose_model, argument and result

\* the variables of src/app.py
aiVars == << client, cache, session_model, ai_pc, available, model, tried, reply,
             requests, list_calls, chosen >>

\* the variables of plan_day and format_blocks
planVars == << wake_time, sleep_time, tasks, break_every, break_len, start, end,
              sorted_tasks, i, cur, focus, plan, pc, origin, dropped, table, first >>

\* what the steps of plan_day leave alone
others == << table, first, aiVars >>

vars == << planVars, aiVars >>

(***************************************************************************)
(* Bounds of the model and constants of the program.                       *)
(***************************************************************************)
MaxTasks == 3

MinutesPerDay == 1440

MinutesPerHour == 60

BreakLabel == "Short Break"

BufferLabel == "Free Time / Buffer"

\* A time text: a clock time, and the date it names as an offset in days from
\* the reference day (0 for a text that names no date, such as "10:30 PM").
TimeText(d, h, m) == [day |-> d, hour |-> h, minute |-> m]

WakeTexts == { TimeText(0, 22, 30), TimeText(1, 23, 30) }

SleepTexts == { TimeText(0, 0, 30), TimeText(0, 22, 30), TimeText(0, 23, 15), TimeText(0, 23, 30) }

Names == { "A", "B" }

Durations == { 40, 60 }

Priorities == { 1, 5 }

\* (break_every, break_len) pairs
BreakPolicies == { <<30, 5>>, <<30, 15>>, <<60, 5>> }

Task == [name : Names, duration : Durations, priority : Priorities]

TaskLists == UNION { [1..n -> Task] : n \in 0..MaxTasks }

Block(s, e, n) == [start |-> s, end |-> e, name |-> n]

(***************************************************************************)
(* Pure parts of plan_day.                                                 *)
(***************************************************************************)
\* parser.parse: the timestamp of a time text, in minutes
Parse(t) == t.day * MinutesPerDay + t.hour * MinutesPerHour + t.minute

\* variant of ResolveEnd: the test written e < s, so equal times do not roll over
ResolveEndWrongTest(s, e) == IF e < s THEN e + MinutesPerDay ELSE e

\* lines 20-21: the window end, given the two parsed timestamps
ResolveEnd(s, e) == IF e <= s THEN e + MinutesPerDay ELSE e

\* variant of KeyLess: the key written (-priority, duration)
KeyLessDurationAscending(a, b) ==
    \/ -a.priority < -b.priority
    \/ -a.priority = -b.priority /\ a.duration < b.duration

\* line 23: the sort key (-priority, -duration), compared as Python compares tuples
KeyLess(a, b) ==
    \/ -a.priority < -b.priority
    \/ -a.priority = -b.priority /\ -a.duration < -b.duration

\* line 23: sorted() is stable. Order(ts) is the sequence of input indices in
\* sorted order: index k is inserted before the first index whose key is
\* strictly greater, so that equal keys keep their input order.
RECURSIVE InsertIdx(_, _, _)
InsertIdx(ts, k, s) ==
    IF s = << >> THEN << k >>
    ELSE IF KeyLess(ts[k], ts[Head(s)]) THEN << k >> \o s
    ELSE << Head(s) >> \o InsertIdx(ts, k, Tail(s))

RECURSIVE OrderUpTo(_, _)
OrderUpTo(ts, n) ==
    IF n = 0 THEN << >> ELSE InsertIdx(ts, n, OrderUpTo(ts, n - 1))

Order(ts) == OrderUpTo(ts, Len(ts))

SortedTasks(ts) == [k \in 1..Len(ts) |-> ts[Order(ts)[k]]]

\* variant of CallerListAfterSort: tasks.sort(...) in place of sorted(tasks, ...)
SortedInPlace(ts) == SortedTasks(ts)

\* line 23 binds the local name to a new list: the caller's list is what it was
CallerListAfterSort(ts) == ts

\* variant of BreakDue: the focus counter is not looked at
BreakDueFitOnly(f, c, e, every, len) == c + len <= e

\* variant of BreakDue: focus > break_every
BreakDueStrict(f, c, e, every, len) == f > every /\ c + len <= e

\* line 29: a break is due and fits
BreakDue(f, c, e, every, len) == f >= every /\ c + len <= e

\* variant of Fits: a task is placed whenever it starts inside the window
FitsIfStartsInside(c, d, e) == c < e

\* line 35: the task fits
Fits(c, d, e) == c + d <= e

\* variants of BufferNeeded: the comparison written >, != and <=
BufferNeededReversed(c, e) == c > e

BufferNeededNotEqual(c, e) == c # e

BufferNeededOrEqual(c, e) == c <= e

\* line 40: time remains after the loop
BufferNeeded(c, e) == c < e

\* lines 30-31: the break block
BreakBlock(c, len) == Block(c, c + len, BreakLabel)

\* variant of TaskBlock: the block one minute short
TaskBlockOffByOne(c, t) == Block(c, c + t.duration - 1, t.name)

\* lines 34-36: the task block
TaskBlock(c, t) == Block(c, c + t.duration, t.name)

\* variant of BufferBlock: the time after the loop emitted as a break
BufferBlockAsBreak(c, e) == Block(c, e, BreakLabel)

\* variant of BufferBlock: Block(end, end, ...)
BufferBlockFromEnd(c, e) == Block(e, e, BufferLabel)

\* line 41: the buffer block
BufferBlock(c, e) == Block(c, e, BufferLabel)

\* variant of NewPlan: the list of an earlier call is kept (a list shared between calls)
LeftoverPlan == plan

\* line 26: every call starts its plan as a new empty list
NewPlan == << >>

(***************************************************************************)
(* Pure parts of src/app.py. Model ids and messages are strings.           *)
(***************************************************************************)
\* Python's None; no model id is the empty string, and both are falsy
None == ""

UpperLetters == "ABCDEFGHIJKLMNOPQRSTUVWXYZ"

LowerLetters == "abcdefghijklmnopqrstuvwxyz"

\* the lower-case letter of every upper-case letter
LowerOf ==
    [c \in {SubSeq(UpperLetters, k, k) : k \in 1..Len(UpperLetters)} |->
        LET k == CHOOSE j \in 1..Len(UpperLetters) : SubSeq(UpperLetters, j, j) = c
        IN  SubSeq(LowerLetters, k, k)]

\* str.lower() on one character
LowerChar(c) == IF c \in DOMAIN LowerOf THEN LowerOf[c] ELSE c

\* str.lower()
RECURSIVE Lower(_)
Lower(str) ==
    IF Len(str) = 0 THEN ""
    ELSE LowerChar(SubSeq(str, 1, 1)) \o Lower(SubSeq(str, 2, Len(str)))

\* sub in str
Contains(str, sub) ==
    \E k \in 1..(Len(str) - Len(sub) + 1) : SubSeq(str, k, k + Len(sub) - 1) = sub

\* the elements of a list
Members(list) == {list[k] : k \in 1..Len(list)}

\* the elements of a list whose lower-cased text contains word
WithWord(list, word) == {m \in Members(list) : Contains(Lower(m), word)}

\* for m in list: if m in S: return m; the caller knows there is one
FirstIn(list, S) ==
    list[CHOOSE k \in 1..Len(list) :
            list[k] \in S /\ \A j \in 1..(k - 1) : list[j] \notin S]

\* lines 38-47
preferred ==
    << "llama-3.3-70b-specdec", "llama-3.2-70b-text", "llama-3.2-11b-text-preview",
       "llama3-70b-8192", "llama3-8b-8192", "llama-3.1-8b-instant", "mixtral-8x7b" >>

\* variant of choose_model: the llama and mixtral passes before the preferred list
choose_model_family_first(avail) ==
    IF Len(avail) = 0 THEN None
    ELSE IF WithWord(avail, "llama") # {}
    THEN FirstIn(avail, WithWord(avail, "llama"))
    ELSE IF WithWord(avail, "mixtral") # {}
    THEN FirstIn(avail, WithWord(avail, "mixtral"))
    ELSE IF Members(preferred) \cap Members(avail) # {}
    THEN FirstIn(preferred, Members(avail))
    ELSE avail[1]

\* lines 27-57
choose_model(avail) ==
    IF Len(avail) = 0 THEN None
    ELSE IF Members(preferred) \cap Members(avail) # {}
    THEN FirstIn(preferred, Members(avail))
    ELSE IF WithWord(avail, "llama") # {}
    THEN FirstIn(avail, WithWord(avail, "llama"))
    ELSE IF WithWord(avail, "mixtral") # {}
    THEN FirstIn(avail, WithWord(avail, "mixtral"))
    ELSE avail[1]

\* variant of IsModelError: every error that mentions a model rotates the model
IsModelErrorAnyMention(msg) == Contains(Lower(msg), "model")

\* line 88: the message tells of a decommissioned or unknown model
IsModelError(msg) ==
    LET low == Lower(msg) IN
    /\ Contains(low, "model")
    /\ Contains(low, "decommission") \/ Contains(low, "not found")

\* variant of ClientMissing: the test of line 61 left out
ClientMissingIgnored == FALSE

\* line 61: not client
ClientMissing == ~client

\* lines 90 and 94: the elements of list that were not tried, in order
Untried(list, done) == SelectSeq(list, LAMBDA m : m \notin done)

\* variant of Candidates: the list as it is, tried models included
CandidatesUnfiltered(list, done) == list

\* line 90
Candidates(list, done) == Untried(list, done)

\* str.strip() for spaces
RECURSIVE Strip(_)
Strip(str) ==
    IF Len(str) = 0 THEN ""
    ELSE IF SubSeq(str, 1, 1) = " " THEN Strip(SubSeq(str, 2, Len(str)))
    ELSE IF SubSeq(str, Len(str), Len(str)) = " " THEN Strip(SubSeq(str, 1, Len(str) - 1))
    ELSE str

\* line 62
DisabledReply == "(AI disabled: no GROQ_API_KEY found)"

\* line 67
UnavailableReply == "(AI unavailable: no accessible models for this key)"

\* line 96
AllFailedReply(m) == "(AI error: all candidate models failed; last tried: " \o m \o ")"

\* lines 100 and 102
ErrorReply(e) == "(AI error: " \o e \o ")"

\* the cache of list_models: empty, or holding a list
NotCached == [set |-> FALSE, value |-> << >>]

Cached(list) == [set |-> TRUE, value |-> list]

\* lines 17-25: what list_models returns when the service would answer fetched
\* (the empty list when the listing raises)
list_models(fetched) ==
    IF cache.set THEN cache.value
    ELSE IF ~client THEN << >>
    ELSE fetched

\* the answers of the service that list_models can see: none matters while the
\* cache holds a list
Fetchable(lists) == IF cache.set THEN {<< >>} ELSE lists

\* the history of requests with one more: model, kind of outcome and message,
\* the message being kept for the last request only
Logged(log, m, o) ==
    Append([k \in 1..Len(log) |-> [log[k] EXCEPT !.msg = ""]],
           [model |-> m, kind |-> o.kind, msg |-> o.msg])

NotChosen == [made |-> FALSE, from |-> << >>, result |-> None]

Chose(list) == [made |-> TRUE, from |-> list, result |-> choose_model(list)]

\* ai_reply is not running and nothing of src/app.py is configured
AiIdle ==
    /\ client = FALSE
    /\ cache = NotCached
    /\ session_model = None
    /\ ai_pc = "off"
    /\ available = << >>
    /\ model = None
    /\ tried = {}
    /\ reply = ""
    /\ requests = << >>
    /\ list_calls = 0
    /\ chosen = NotChosen

(***************************************************************************)
(* format_blocks. A timestamp is shown by strftime('%I:%M %p').            *)
(***************************************************************************)
\* the hour (0..23) and the minute of a timestamp
HourOf(t) == (t % MinutesPerDay) \div MinutesPerHour

MinuteOf(t) == t % MinutesPerHour

\* a number below 100 as two decimal digits
TwoDigits(n) == IF n < 10 THEN "0" \o ToString(n) ELSE ToString(n)

\* variant of Hour12: the hour modulo 12, midnight and noon shown as 00
Hour12Modulo(h) == h % 12

\* %I: the hour on the 12-hour clock, 01..12
Hour12(h) == IF h % 12 = 0 THEN 12 ELSE h % 12

\* %p
AmPm(h) == IF h < 12 THEN "AM" ELSE "PM"

\* line 45: strftime('%I:%M %p')
Strftime(t) ==
    TwoDigits(Hour12(HourOf(t))) \o ":" \o TwoDigits(MinuteOf(t)) \o " " \o AmPm(HourOf(t))

\* line 45: the character between the two times (U+2013 in the source, written
\* here as a hyphen, the strings of this module being ASCII)
RangeSeparator == "-"

\* lines 44-46
format_blocks(blocks) ==
    [k \in 1..Len(blocks) |->
        [Time |-> Strftime(blocks[k].start) \o RangeSeparator \o Strftime(blocks[k].end),
         Task |-> blocks[k].name]]

(***************************************************************************)
(* The call.                                                               *)
(***************************************************************************)
\* no call has returned yet
NoCall == [made |-> FALSE, arguments |-> << >>, plan |-> << >>, between |-> FALSE]

Init ==
    /\ wake_time \in WakeTexts
    /\ sleep_time \in SleepTexts
    /\ tasks \in TaskLists
    /\ \E p \in BreakPolicies : break_every = p[1] /\ break_len = p[2]
    /\ start = 0
    /\ end = 0
    /\ sorted_tasks = << >>
    /\ i = 0
    /\ cur = 0
    /\ focus = 0
    /\ plan = << >>
    /\ origin = << >>
    /\ dropped = << >>
    /\ pc = "parse"
    /\ table = << >>
    /\ first = NoCall
    /\ AiIdle

\* lines 18-21
ResolveWindow ==
    /\ pc = "parse"
    /\ start' = Parse(wake_time)
    /\ end' = ResolveEnd(Parse(wake_time), Parse(sleep_time))
    /\ pc' = "sort"
    /\ UNCHANGED others
    /\ UNCHANGED << wake_time, sleep_time, tasks, break_every, break_len,
                    sorted_tasks, i, cur, focus, plan, origin, dropped >>

\* where the for loop goes after position k
LoopAt(k, n) == IF k <= n THEN "break" ELSE "buffer"

\* lines 23-26
SortAndInit ==
    /\ pc = "sort"
    /\ sorted_tasks' = SortedTasks(tasks)
    /\ tasks' = CallerListAfterSort(tasks)
    /\ cur' = start
    /\ focus' = 0
    /\ plan' = NewPlan
    /\ i' = 1
    /\ pc' = LoopAt(1, Len(tasks))
    /\ UNCHANGED others
    /\ UNCHANGED << wake_time, sleep_time, break_every, break_len, start, end,
                    origin, dropped >>

\* lines 29-32, the test true
InsertBreak ==
    /\ pc = "break"
    /\ BreakDue(focus, cur, end, break_every, break_len)
    /\ plan' = Append(plan, BreakBlock(cur, break_len))
    /\ origin' = Append(origin, 0)
    /\ cur' = cur + break_len
    /\ focus' = 0
    /\ pc' = "task"
    /\ UNCHANGED others
    /\ UNCHANGED << wake_time, sleep_time, tasks, break_every, break_len,
                    start, end, sorted_tasks, i, dropped >>

\* line 29, the test false
NoBreak ==
    /\ pc = "break"
    /\ ~BreakDue(focus, cur, end, break_every, break_len)
    /\ pc' = "task"
    /\ UNCHANGED others
    /\ UNCHANGED << wake_time, sleep_time, tasks, break_every, break_len,
                    start, end, sorted_tasks, i, cur, focus, plan, origin, dropped >>

\* lines 34-38, the test true
PlaceTask ==
    /\ pc = "task"
    /\ Fits(cur, sorted_tasks[i].duration, end)
    /\ plan' = Append(plan, TaskBlock(cur, sorted_tasks[i]))
    /\ origin' = Append(origin, Order(tasks)[i])
    /\ cur' = cur + sorted_tasks[i].duration
    /\ focus' = focus + sorted_tasks[i].duration
    /\ i' = i + 1
    /\ pc' = LoopAt(i + 1, Len(sorted_tasks))
    /\ UNCHANGED others
    /\ UNCHANGED << wake_time, sleep_time, tasks, break_every, break_len,
                    start, end, sorted_tasks, dropped >>

\* line 35, the test false: the task is left out
DropTask ==
    /\ pc = "task"
    /\ ~Fits(cur, sorted_tasks[i].duration, end)
    /\ dropped' = Append(dropped, [index |-> Order(tasks)[i], at |-> cur])
    /\ i' = i + 1
    /\ pc' = LoopAt(i + 1, Len(sorted_tasks))
    /\ UNCHANGED others
    /\ UNCHANGED << wake_time, sleep_time, tasks, break_every, break_len,
                    start, end, sorted_tasks, cur, focus, plan, origin >>

\* lines 40-42, the test true
EmitBuffer ==
    /\ pc = "buffer"
    /\ BufferNeeded(cur, end)
    /\ plan' = Append(plan, BufferBlock(cur, end))
    /\ origin' = Append(origin, -1)
    /\ pc' = "done"
    /\ UNCHANGED others
    /\ UNCHANGED << wake_time, sleep_time, tasks, break_every, break_len,
                    start, end, sorted_tasks, i, cur, focus, dropped >>

\* lines 40 and 42, the test false
ReturnPlan ==
    /\ pc = "buffer"
    /\ ~BufferNeeded(cur, end)
    /\ pc' = "done"
    /\ UNCHANGED others
    /\ UNCHANGED << wake_time, sleep_time, tasks, break_every, break_len,
                    start, end, sorted_tasks, i, cur, focus, plan, origin, dropped >>

Next ==
    \/ ResolveWindow
    \/ SortAndInit
    \/ InsertBreak
    \/ NoBreak
    \/ PlaceTask
    \/ DropTask
    \/ EmitBuffer
    \/ ReturnPlan

Spec == Init /\ [][Next]_vars

(***************************************************************************)
(* format_blocks applied to a list of blocks (src/app.py line 134).        *)
(***************************************************************************)
MaxBlocks == 2

\* timestamps around midnight, noon and the ends of the hour, one of them on
\* the next day
FormatTimes == { 0, 5, 9 * 60 + 59, 11 * 60 + 59, 12 * 60, 13 * 60 + 7, 23 * 60 + 59,
                 1440 + 30 }

FormatBlocks ==
    { Block(s, e, n) : s \in FormatTimes, e \in FormatTimes, n \in {"A", BreakLabel} }

InitFormat ==
    /\ plan \in UNION { [1..n -> {b \in FormatBlocks : b.start < b.end}] : n \in 0..MaxBlocks }
    /\ pc = "done"
    /\ wake_time = TimeText(0, 0, 0)
    /\ sleep_time = TimeText(0, 0, 0)
    /\ tasks = << >>
    /\ break_every = 60
    /\ break_len = 5
    /\ start = 0
    /\ end = 0
    /\ sorted_tasks = << >>
    /\ i = 0
    /\ cur = 0
    /\ focus = 0
    /\ origin = << >>
    /\ dropped = << >>
    /\ table = << >>
    /\ first = NoCall
    /\ AiIdle

\* src/app.py line 134
FormatPlan ==
    /\ pc = "done"
    /\ table' = format_blocks(plan)
    /\ pc' = "formatted"
    /\ UNCHANGED << wake_time, sleep_time, tasks, break_every, break_len, start, end,
                    sorted_tasks, i, cur, focus, plan, origin, dropped, first >>
    /\ UNCHANGED aiVars

NextFormat == FormatPlan

SpecFormat == InitFormat /\ [][NextFormat]_vars

(***************************************************************************)
(* Several calls, one after the other. A call's locals do not exist before *)
(* its statements assign them: here they hold whatever the call before     *)
(* left, so that a result that read one of them unassigned would show.     *)
(***************************************************************************)
\* a few task lists: none, one that fits, a drop, breaks
CallTaskLists ==
    { << >>,
      << [name |-> "A", duration |-> 60, priority |-> 5] >>,
      << [name |-> "A", duration |-> 40, priority |-> 1],
         [name |-> "B", duration |-> 60, priority |-> 1] >>,
      << [name |-> "B", duration |-> 40, priority |-> 5],
         [name |-> "A", duration |-> 40, priority |-> 5],
         [name |-> "A", duration |-> 60, priority |-> 1] >> }

CallSleepTexts == { TimeText(0, 0, 30), TimeText(0, 23, 30) }

CallBreakPolicies == { <<30, 5>>, <<60, 5>> }

\* the arguments of the present call
Arguments == << wake_time, sleep_time, tasks, break_every, break_len >>

InitCalls ==
    /\ wake_time = TimeText(0, 22, 30)
    /\ sleep_time \in CallSleepTexts
    /\ tasks \in CallTaskLists
    /\ \E p \in CallBreakPolicies : break_every = p[1] /\ break_len = p[2]
    /\ start = 0
    /\ end = 0
    /\ sorted_tasks = << >>
    /\ i = 0
    /\ cur = 0
    /\ focus = 0
    /\ plan = << >>
    /\ origin = << >>
    /\ dropped = << >>
    /\ pc = "parse"
    /\ table = << >>
    /\ first = NoCall
    /\ AiIdle

\* the call has returned and plan_day is called again (line 17)
CallAgain ==
    /\ pc = "done"
    /\ UNCHANGED << wake_time, start, end, sorted_tasks, i, cur, focus, plan, table >>
    /\ UNCHANGED aiVars
    /\ sleep_time' \in CallSleepTexts
    /\ tasks' \in CallTaskLists
    /\ \E p \in CallBreakPolicies : break_every' = p[1] /\ break_len' = p[2]
    /\ first' = IF first.made
                THEN [first EXCEPT !.between = @ \/ Arguments' # first.arguments]
                ELSE [made |-> TRUE, arguments |-> Arguments, plan |-> plan,
                      between |-> Arguments' # Arguments]
    /\ origin' = << >>
    /\ dropped' = << >>
    /\ pc' = "parse"

NextCalls == Next \/ CallAgain

SpecCalls == InitCalls /\ [][NextCalls]_vars

(***************************************************************************)
(* ai_reply (src/app.py), called again and again in one session. The       *)
(* service answers each listing and each completion request as it likes.   *)
(***************************************************************************)
MaxModels == 2

\* two ids of the preferred list, two other llama ids, a mixtral id, two others
ModelIds ==
    { "llama-3.3-70b-specdec", "llama3-8b-8192", "Meta-Llama-Guard", "llama-guard-4",
      "Mixtral-8x22b", "gemma2-9b-it", "whisper-large-v3" }

\* what client.models.list() may answer; the empty list also stands for a
\* listing that raises (line 24)
ModelLists == UNION { [1..n -> ModelIds] : n \in 0..MaxModels }

\* the messages of the errors a request may raise
Messages ==
    { "The model has been decommissioned", "Model Not Found", "model overloaded",
      "route not found", "rate limit reached" }

\* how a completion request may end: an answer, an answer without choices
\* (line 84 raises), a GroqError, another exception
Outcomes ==
    { [kind |-> "ok", msg |-> " Start with the report. "],
      [kind |-> "malformed", msg |-> "list index out of range"] }
    \cup [kind : {"groq"}, msg : Messages]
    \cup [kind : {"other"}, msg : {"Model Not Found", "connection reset"}]

\* the scheduler is not running
PlanIdle ==
    /\ wake_time = TimeText(0, 0, 0)
    /\ sleep_time = TimeText(0, 0, 0)
    /\ tasks = << >>
    /\ break_every = 60
    /\ break_len = 5
    /\ start = 0
    /\ end = 0
    /\ sorted_tasks = << >>
    /\ i = 0
    /\ cur = 0
    /\ focus = 0
    /\ plan = << >>
    /\ origin = << >>
    /\ dropped = << >>
    /\ pc = "off"
    /\ table = << >>
    /\ first = NoCall

InitAI ==
    /\ PlanIdle
    /\ client \in BOOLEAN
    /\ cache = NotCached
    /\ session_model \in {None} \cup ModelIds
    /\ ai_pc = "idle"
    /\ available = << >>
    /\ model = None
    /\ tried = {}
    /\ reply = ""
    /\ requests = << >>
    /\ list_calls = 0
    /\ chosen = NotChosen

\* lines 61-62
ReturnDisabled ==
    /\ ai_pc = "idle"
    /\ ClientMissing
    /\ reply' = DisabledReply
    /\ ai_pc' = "returned"
    /\ UNCHANGED << client, cache, session_model, available, model, tried,
                    requests, list_calls, chosen >>
    /\ UNCHANGED planVars

\* lines 64-65: the list of models and the first choice
FirstModel(list) == IF session_model # None THEN session_model ELSE choose_model(list)

\* lines 64-66, a model was found: the loop is entered
StartRequests ==
    /\ ai_pc = "idle"
    /\ ~ClientMissing
    /\ \E fetched \in Fetchable(ModelLists) :
        LET list == list_models(fetched) IN
        /\ FirstModel(list) # None
        /\ available' = list
        /\ cache' = Cached(list)
        /\ chosen' = IF session_model # None THEN chosen ELSE Chose(list)
        /\ model' = FirstModel(list)
    /\ list_calls' = list_calls + 1
    /\ tried' = {}
    /\ ai_pc' = "request"
    /\ UNCHANGED << client, session_model, reply, requests >>
    /\ UNCHANGED planVars

\* lines 64-67, no model
ReturnUnavailable ==
    /\ ai_pc = "idle"
    /\ ~ClientMissing
    /\ \E fetched \in Fetchable(ModelLists) :
        LET list == list_models(fetched) IN
        /\ FirstModel(list) = None
        /\ available' = list
        /\ cache' = Cached(list)
        /\ chosen' = Chose(list)
        /\ model' = None
    /\ list_calls' = list_calls + 1
    /\ reply' = UnavailableReply
    /\ ai_pc' = "returned"
    /\ UNCHANGED << client, session_model, tried, requests >>
    /\ UNCHANGED planVars

\* lines 72-84: the request is answered
RequestAnswered ==
    /\ ai_pc = "request"
    /\ \E o \in Outcomes :
        /\ o.kind = "ok"
        /\ requests' = Logged(requests, model, o)
        /\ reply' = Strip(o.msg)
    /\ tried' = tried \cup {model}
    /\ session_model' = model
    /\ ai_pc' = "returned"
    /\ UNCHANGED << client, cache, available, model, list_calls, chosen >>
    /\ UNCHANGED planVars

\* lines 72-84 and 101-102: the request is answered, line 83 has stored the
\* model, and reading the answer raises
AnswerUnreadable ==
    /\ ai_pc = "request"
    /\ \E o \in Outcomes :
        /\ o.kind = "malformed"
        /\ requests' = Logged(requests, model, o)
        /\ reply' = ErrorReply(o.msg)
    /\ tried' = tried \cup {model}
    /\ session_model' = model
    /\ ai_pc' = "returned"
    /\ UNCHANGED << client, cache, available, model, list_calls, chosen >>
    /\ UNCHANGED planVars

\* lines 72-74, 85-98: a GroqError about the model, and another model is left
RetryOtherModel ==
    /\ ai_pc = "request"
    /\ \E o \in Outcomes, fetched \in Fetchable(ModelLists) :
        LET done == tried \cup {model}
            left == Candidates(available, done)
            fresh == list_models(fetched)
            cands == IF Len(left) = 0 THEN Candidates(fresh, done) ELSE left
        IN
        /\ o.kind = "groq"
        /\ IsModelError(o.msg)
        /\ Len(cands) # 0
        /\ requests' = Logged(requests, model, o)
        /\ tried' = done
        /\ list_calls' = IF Len(left) = 0 THEN list_calls + 1 ELSE list_calls
        /\ cache' = IF Len(left) = 0 THEN Cached(fresh) ELSE cache
        /\ chosen' = Chose(cands)
        /\ model' = choose_model(cands)
    /\ ai_pc' = "request"
    /\ UNCHANGED << client, session_model, available, reply >>
    /\ UNCHANGED planVars

\* lines 72-74, 85-96: a GroqError about the model, and no model is left
ReturnAllFailed ==
    /\ ai_pc = "request"
    /\ \E o \in Outcomes, fetched \in Fetchable(ModelLists) :
        LET done == tried \cup {model}
            left == Candidates(available, done)
            fresh == list_models(fetched)
            cands == IF Len(left) = 0 THEN Candidates(fresh, done) ELSE left
        IN
        /\ o.kind = "groq"
        /\ IsModelError(o.msg)
        /\ Len(cands) = 0
        /\ requests' = Logged(requests, model, o)
        /\ tried' = done
        /\ list_calls' = list_calls + 1
        /\ cache' = Cached(fresh)
        /\ reply' = AllFailedReply(model)
    /\ ai_pc' = "returned"
    /\ UNCHANGED << client, session_model, available, model, chosen >>
    /\ UNCHANGED planVars

\* lines 72-74, 85-88, 99-100: any other GroqError
ReturnGroqError ==
    /\ ai_pc = "request"
    /\ \E o \in Outcomes :
        /\ o.kind = "groq"
        /\ ~IsModelError(o.msg)
        /\ requests' = Logged(requests, model, o)
        /\ reply' = ErrorReply(o.msg)
    /\ tried' = tried \cup {model}
    /\ ai_pc' = "returned"
    /\ UNCHANGED << client, cache, session_model, available, model, list_calls, chosen >>
    /\ UNCHANGED planVars

\* lines 72-74, 101-102: an exception that is no GroqError
ReturnException ==
    /\ ai_pc = "request"
    /\ \E o \in Outcomes :
        /\ o.kind = "other"
        /\ requests' = Logged(requests, model, o)
        /\ reply' = ErrorReply(o.msg)
    /\ tried' = tried \cup {model}
    /\ ai_pc' = "returned"
    /\ UNCHANGED << client, cache, session_model, available, model, list_calls, chosen >>
    /\ UNCHANGED planVars

\* ai_reply is called again (lines 136, 148): a new frame, the session and
\* the cache as they are
CallAiReply ==
    /\ ai_pc = "returned"
    /\ ai_pc' = "idle"
    /\ available' = << >>
    /\ model' = None
    /\ tried' = {}
    /\ reply' = ""
    /\ requests' = << >>
    /\ list_calls' = 0
    /\ chosen' = NotChosen
    /\ UNCHANGED << client, cache, session_model >>
    /\ UNCHANGED planVars

NextAI ==
    \/ ReturnDisabled
    \/ StartRequests
    \/ ReturnUnavailable
    \/ RequestAnswered
    \/ AnswerUnreadable
    \/ RetryOtherModel
    \/ ReturnAllFailed
    \/ ReturnGroqError
    \/ ReturnException
    \/ CallAiReply

SpecAI == InitAI /\ [][NextAI]_vars

(***************************************************************************)
(* Properties of plan_day.                                                 *)
(***************************************************************************)
Done == pc = "done"

IsTaskBlock(k) == origin[k] > 0

IsBreakBlock(k) == origin[k] = 0

IsBufferBlock(k) == origin[k] = -1

Blocks == 1..Len(plan)

\* the history variable and the labels agree on the kind of every block
KindsAgree ==
    /\ Len(origin) = Len(plan)
    /\ \A k \in Blocks :
        /\ IsBreakBlock(k) <=> plan[k].name = BreakLabel
        /\ IsBufferBlock(k) <=> plan[k].name = BufferLabel
        /\ IsTaskBlock(k) <=> plan[k].name \in Names

\* C1: for a window of positive length the returned list is non-empty and
\* tiles the window: the first block starts at the window start, every block
\* ends where the next starts, the last block ends at the window end, and no
\* two blocks overlap.
C1_TilesWindow ==
    (Done /\ end > start) =>
        /\ Len(plan) > 0
        /\ plan[1].start = start
        /\ \A k \in 1..(Len(plan) - 1) : plan[k].end = plan[k + 1].start
        /\ plan[Len(plan)].end = end
        /\ \A k, l \in Blocks : k < l => plan[k].end <= plan[l].start

C1_Witness ==
    /\ Done
    /\ end > start
    /\ dropped # << >>
    /\ \E k \in Blocks : IsBreakBlock(k)
    /\ \E k \in Blocks : IsBufferBlock(k)

\* C2: every task block has exactly the length and the name of the input task
\* it comes from, each input task has at most one block, and once the call is
\* over each input task was either placed whole or left out.
C2_TasksWholeOrAbsent ==
    /\ KindsAgree
    /\ \A k \in Blocks : IsTaskBlock(k) =>
        /\ origin[k] \in 1..Len(tasks)
        /\ plan[k].end - plan[k].start = tasks[origin[k]].duration
        /\ plan[k].name = tasks[origin[k]].name
    /\ \A k, l \in Blocks : (IsTaskBlock(k) /\ IsTaskBlock(l) /\ k # l) => origin[k] # origin[l]
    /\ Done => \A n \in 1..Len(tasks) :
        (\E k \in Blocks : origin[k] = n) <=> ~(\E d \in 1..Len(dropped) : dropped[d].index = n)

C2_Witness ==
    /\ Done
    /\ dropped # << >>
    /\ \E k, l \in Blocks : /\ k # l /\ IsTaskBlock(k) /\ IsTaskBlock(l)
                           /\ plan[k].name = plan[l].name
                           /\ plan[k].end - plan[k].start # plan[l].end - plan[l].start

\* the last block of the plan is the buffer block and it starts at c
BufferFrom(c) ==
    /\ Len(plan) > 0
    /\ IsBufferBlock(Len(plan))
    /\ plan[Len(plan)].start = c
    /\ plan[Len(plan)].end = end

\* a task block of the plan starts at cursor c
PlacedLaterAt(c) == \E k \in Blocks : IsTaskBlock(k) /\ plan[k].start = c

\* the step taken at a task: placed iff it fits at the present cursor; if
\* not, nothing changes but the position of the loop
C3_TaskStep ==
    pc = "task" =>
        LET t == sorted_tasks[i] IN
        /\ i \in 1..Len(sorted_tasks)
        /\ i' = i + 1
        /\ IF cur + t.duration <= end
           THEN /\ plan' = Append(plan, [start |-> cur, end |-> cur + t.duration, name |-> t.name])
                /\ cur' = cur + t.duration
                /\ focus' = focus + t.duration
                /\ dropped' = dropped
           ELSE /\ plan' = plan
                /\ cur' = cur
                /\ focus' = focus
                /\ Len(dropped') = Len(dropped) + 1

\* every task of the input had its turn when the loop is over
C3_AllTried ==
    pc \in {"buffer", "done"} =>
        /\ i = Len(tasks) + 1
        /\ Cardinality({origin[k] : k \in {b \in Blocks : IsTaskBlock(b)}}) + Len(dropped) = Len(tasks)

\* C3 as stated: whenever a task was dropped at a cursor before the window
\* end, the returned plan ends with a buffer block that starts at that cursor.
C3_Original ==
    Done => \A d \in 1..Len(dropped) :
        dropped[d].at < end => BufferFrom(dropped[d].at)

\* the time left at a drop goes to the buffer unless a later task that fits
\* was placed at that cursor
C3_DroppedTime ==
    Done => \A d \in 1..Len(dropped) :
        \/ dropped[d].at >= end
        \/ dropped[d].at = cur /\ BufferFrom(cur)
        \/ dropped[d].at < cur /\ PlacedLaterAt(dropped[d].at)

\* C3 (amended): a task is placed iff cursor + duration <= window end when it
\* is reached; a task that does not fit changes neither the cursor nor the
\* focus counter nor the plan, the loop goes on to every later task, and the
\* time from the cursor of a drop to the window end is in the final buffer
\* block unless a later task that fits was placed at that cursor.
C3_DropPolicy == [][C3_TaskStep]_vars /\ [](C3_AllTried /\ C3_DroppedTime)

C3_Witness ==
    /\ Done
    /\ \E d \in 1..Len(dropped) : dropped[d].at < cur /\ PlacedLaterAt(dropped[d].at)
    /\ \E d \in 1..Len(dropped) : dropped[d].at = cur /\ BufferFrom(cur)

\* the key of a task is at least the key of another, as line 23 orders them
C4_Before(a, b, ia, ib) ==
    \/ a.priority > b.priority
    \/ a.priority = b.priority /\ a.duration > b.duration
    \/ a.priority = b.priority /\ a.duration = b.duration /\ ia < ib

\* C4: task blocks appear by priority descending, then duration descending,
\* and tasks equal in both keep their input order.
C4_SortedOrder ==
    /\ pc \notin {"parse", "sort"} =>
        /\ Len(sorted_tasks) = Len(tasks)
        /\ \A k, l \in 1..Len(sorted_tasks) : k < l =>
            C4_Before(sorted_tasks[k], sorted_tasks[l], Order(tasks)[k], Order(tasks)[l])
        /\ \A k \in 1..Len(tasks) : sorted_tasks[k] = tasks[Order(tasks)[k]]
        /\ {Order(tasks)[k] : k \in 1..Len(tasks)} = 1..Len(tasks)
    /\ \A k, l \in Blocks : (k < l /\ IsTaskBlock(k) /\ IsTaskBlock(l)) =>
        C4_Before(tasks[origin[k]], tasks[origin[l]], origin[k], origin[l])

C4_Witness ==
    /\ Done
    /\ \E k, l \in Blocks :
        /\ k < l /\ IsTaskBlock(k) /\ IsTaskBlock(l)
        /\ origin[k] < origin[l]
        /\ tasks[origin[k]].priority = tasks[origin[l]].priority
        /\ tasks[origin[k]].duration = tasks[origin[l]].duration
        /\ tasks[origin[k]].name # tasks[origin[l]].name
    /\ \E k, l \in Blocks :
        /\ k < l /\ IsTaskBlock(k) /\ IsTaskBlock(l)
        /\ origin[k] > origin[l]
        /\ tasks[origin[k]].priority = tasks[origin[l]].priority
        /\ tasks[origin[k]].duration > tasks[origin[l]].duration

\* minutes of task work in plan[1..k] since the last break block
RECURSIVE WorkSinceBreak(_)
WorkSinceBreak(k) ==
    IF k = 0 \/ IsBreakBlock(k) THEN 0
    ELSE plan[k].end - plan[k].start + WorkSinceBreak(k - 1)

NumBreaks(p) == Cardinality({k \in 1..Len(p) : p[k].name = BreakLabel})

\* the step taken before a task: a break iff it is due and fits
C5_BreakStep ==
    /\ pc = "break" =>
        /\ pc' = "task"
        /\ i' = i
        /\ IF focus >= break_every /\ cur + break_len <= end
           THEN /\ plan' = Append(plan, [start |-> cur, end |-> cur + break_len, name |-> BreakLabel])
                /\ cur' = cur + break_len
                /\ focus' = 0
           ELSE /\ plan' = plan
                /\ cur' = cur
                /\ focus' = focus
    /\ pc # "break" => NumBreaks(plan') = NumBreaks(plan)
    /\ pc' = "task" => pc = "break"

\* the focus counter is the task work placed since the last break
C5_FocusCounter ==
    pc \in {"break", "task", "buffer"} => focus = WorkSinceBreak(Len(plan))

\* two 40-minute tasks with break_every = 60 are placed back to back
C5_TwoForties ==
    (/\ Done
     /\ break_every = 60
     /\ Len(tasks) = 2
     /\ \A n \in 1..Len(tasks) : tasks[n].duration = 40
     /\ end - start >= 80) =>
        /\ Len(plan) >= 2
        /\ IsTaskBlock(1) /\ IsTaskBlock(2)
        /\ plan[1].end = plan[2].start

\* C5: before each task, a break of exactly break_len minutes is emitted at
\* the cursor, the cursor advanced and the focus counter reset, iff the focus
\* counter (task work placed since the last break) is >= break_every and the
\* break fits; otherwise nothing changes; breaks are emitted nowhere else.
C5_BreakPolicy == [][C5_BreakStep]_vars /\ [](C5_FocusCounter /\ C5_TwoForties)

C5_Witness ==
    /\ Done
    /\ break_every = 60
    /\ \E k \in Blocks : IsBreakBlock(k) /\ k > 1 /\ plan[k - 1].end - plan[k - 1].start = 60
    /\ \E k \in Blocks : k > 1 /\ IsTaskBlock(k) /\ IsTaskBlock(k - 1)
                         /\ plan[k].end - plan[k].start = 40
                         /\ plan[k - 1].end - plan[k - 1].start = 40

\* C6: a window of positive length and an empty task list give exactly one
\* block, the buffer block from window start to window end, whatever the
\* break policy.
C6_EmptyTaskList ==
    (Done /\ tasks = << >> /\ end > start) =>
        plan = << [start |-> start, end |-> end, name |-> BufferLabel] >>

C6_Witness ==
    /\ Done
    /\ tasks = << >>
    /\ end > start
    /\ Len(plan) = 1

\* the clock time of a text, in minutes of its day
ClockOf(t) == t.hour * MinutesPerHour + t.minute

\* C7: the window end is the parsed sleep time plus one day exactly when the
\* parsed sleep time is not strictly after the parsed wake time; two times of
\* day of the same reference day give 0 < end - start <= 24 h, and equal
\* times give exactly 24 h.
C7_WindowResolution ==
    pc # "parse" =>
        LET w == wake_time.day * 1440 + ClockOf(wake_time)
            s == sleep_time.day * 1440 + ClockOf(sleep_time)
        IN  /\ start = w
            /\ (s <= w) => end = s + 1440
            /\ (s > w) => end = s
            /\ wake_time.day = sleep_time.day =>
                /\ end > start
                /\ end - start <= 24 * 60
                /\ ClockOf(wake_time) = ClockOf(sleep_time) => end - start = 24 * 60

C7_Witness ==
    /\ Done
    /\ wake_time.day = sleep_time.day
    /\ ClockOf(wake_time) = ClockOf(sleep_time)
    /\ end = start + 1440
    /\ Len(plan) > 1

\* C8: a window that still has zero or negative length after the rollover
\* gives the empty list: no task, break or buffer block.
C8_DegenerateWindow ==
    (pc # "parse" /\ end <= start) =>
        /\ plan = << >>
        /\ Done => Len(dropped) = Len(tasks)

C8_Witness ==
    /\ Done
    /\ end = start
    /\ Len(tasks) >= 2
    /\ plan = << >>

C8_WitnessNegative ==
    /\ Done
    /\ end < start
    /\ Len(tasks) >= 2
    /\ plan = << >>

\* C9: every block has start < end; a buffer block is the last block, there
\* is at most one, and it exists only if the cursor is strictly before the
\* window end.
C9_BlocksWellFormed ==
    /\ \A k \in Blocks : plan[k].start < plan[k].end
    /\ \A k \in Blocks : plan[k].name = BufferLabel =>
        /\ k = Len(plan)
        /\ Done
        /\ cur < end
        /\ plan[k].start = cur
    /\ Cardinality({k \in Blocks : plan[k].name = BufferLabel}) <= 1
    /\ (Done /\ cur < end) => \E k \in Blocks : plan[k].name = BufferLabel

C9_Witness ==
    /\ Done
    /\ cur = end
    /\ end > start
    /\ Len(plan) > 1
    /\ \A k \in Blocks : plan[k].name # BufferLabel

\* C10: the caller's task list is the same list, with the same records in the
\* same order, at every step of the call.
C10_InputUntouched == [][tasks' = tasks]_vars

C10_Witness ==
    /\ Done
    /\ sorted_tasks # tasks
    /\ Len(plan) > Len(tasks)

\* C11: a call with the arguments of the first call returns the block
\* sequence the first call returned, whatever calls were made in between.
C11_Deterministic ==
    (Done /\ first.made /\ Arguments = first.arguments) => plan = first.plan

C11_Witness ==
    /\ Done
    /\ first.made
    /\ first.between
    /\ Arguments = first.arguments
    /\ Len(plan) >= 3
    /\ dropped # << >>

\* a number below 100 in two digits, digit by digit
C12_Digits(n) == ToString(n \div 10) \o ToString(n % 10)

\* a timestamp as the claim describes it
C12_Show(t) ==
    LET h == (t % 1440) \div 60
        m == t % 60
    IN  C12_Digits(((h + 11) % 12) + 1) \o ":" \o C12_Digits(m) \o " "
            \o (IF h < 12 THEN "AM" ELSE "PM")

\* C12: format_blocks returns one entry per block, in order; the entry's label
\* is the block's name, and its time range is the block's start and end on a
\* 12-hour clock: hour h as ((h + 11) mod 12) + 1 in two digits, AM for
\* h < 12 and PM otherwise, then the minute in two digits.
C12_FormatBlocks ==
    pc = "formatted" =>
        /\ Len(table) = Len(plan)
        /\ \A k \in 1..Len(plan) :
            /\ table[k].Task = plan[k].name
            /\ table[k].Time = C12_Show(plan[k].start) \o RangeSeparator \o C12_Show(plan[k].end)

C12_Witness ==
    /\ pc = "formatted"
    /\ Len(table) = 2
    /\ table[1] = [Time |-> "12:00 AM-12:00 PM", Task |-> "A"]
    /\ table[2] = [Time |-> "01:07 PM-12:30 AM", Task |-> BreakLabel]

(***************************************************************************)
(* Properties of ai_reply and choose_model.                                *)
(***************************************************************************)
C13_DisabledStep ==
    (~client /\ ai_pc = "idle") =>
        /\ reply' = "(AI disabled: no GROQ_API_KEY found)"
        /\ ai_pc' = "returned"
        /\ requests' = requests
        /\ list_calls' = list_calls
        /\ cache' = cache

C13_NothingAsked ==
    ~client =>
        /\ requests = << >>
        /\ list_calls = 0
        /\ ~cache.set
        /\ ai_pc \in {"idle", "returned"}
        /\ ai_pc = "returned" => reply = "(AI disabled: no GROQ_API_KEY found)"

\* C13: without a client every call of ai_reply returns the disabled-mode
\* message at once: list_models is not called, no completion request is
\* made, and the remembered session model stays what it was.
C13_DisabledMode ==
    /\ [][C13_DisabledStep /\ (~client => session_model' = session_model)]_vars
    /\ []C13_NothingAsked

C13_Witness ==
    /\ ~client
    /\ ai_pc = "returned"
    /\ reply = DisabledReply
    /\ session_model # None

\* the message mentions a model that is decommissioned or not found
C14_AboutModel(msg) ==
    /\ Contains(Lower(msg), "model")
    /\ \/ Contains(Lower(msg), "decommission")
       \/ Contains(Lower(msg), "not found")

C14_IsErrorReply(str) == Len(str) >= 10 /\ SubSeq(str, 1, 10) = "(AI error:"

\* what a completion request leads to
C14_RequestStep ==
    ai_pc = "request" =>
        /\ Len(requests') = Len(requests) + 1
        /\ LET r == requests'[Len(requests')] IN
            /\ r.model = model
            /\ ai_pc' \in {"request", "returned"}
            /\ ai_pc' = "request" =>
                /\ r.kind = "groq"
                /\ C14_AboutModel(r.msg)
                /\ model' # model
            /\ (ai_pc' = "returned" /\ r.kind # "ok") => C14_IsErrorReply(reply')
            /\ (r.kind \in {"groq", "other"} /\ ~(r.kind = "groq" /\ C14_AboutModel(r.msg))) =>
                /\ ai_pc' = "returned"
                /\ reply' = "(AI error: " \o r.msg \o ")"
            /\ r.kind \in {"ok", "malformed"} => session_model' = model
            /\ r.kind \notin {"ok", "malformed"} => session_model' = session_model

C14_SessionWrittenByRequests ==
    (ai_pc # "request") => session_model' = session_model

\* C14: a failed completion request never leaves ai_reply as an exception: it
\* ends in a retry with another model, only for a GroqError whose message
\* mentions a model that is decommissioned or not found, or in a returned
\* string that starts with "(AI error:"; any other error returns at once; the
\* session model is written only by a request that was answered, with the
\* model of that request.
C14_ErrorsContained == [][C14_RequestStep /\ C14_SessionWrittenByRequests]_vars

C14_Witness ==
    /\ ai_pc = "returned"
    /\ Len(requests) = 2
    /\ requests[1].kind = "groq"
    /\ requests[2].kind = "groq"
    /\ requests[2].msg = "model overloaded"
    /\ requests[1].model = "llama3-8b-8192"
    /\ reply = "(AI error: model overloaded)"
    /\ session_model = requests[1].model

\* the models of a list, as a set
C16_Models(list) == {list[k] : k \in 1..Len(list)}

C16_Requested == {requests[k].model : k \in 1..Len(requests)}

\* a retry takes a model that this call has not tried
C16_RetryStep ==
    (ai_pc = "request" /\ ai_pc' = "request") =>
        /\ tried' = tried \cup {model}
        /\ model' \notin tried'
        /\ model' \in C16_Models(available)

C16_NoRepeat ==
    /\ \A a, b \in 1..Len(requests) : a # b => requests[a].model # requests[b].model
    /\ Len(requests) >= 1 =>
        Len(requests) <= Cardinality(C16_Models(available) \cup {requests[1].model})
    /\ ai_pc = "request" => (model \notin C16_Requested /\ tried = C16_Requested)

\* every request of the call ended in a GroqError about the model
C16_AllModelErrors ==
    /\ Len(requests) >= 1
    /\ \A k \in 1..Len(requests) : requests[k].kind = "groq"
    /\ C14_AboutModel(requests[Len(requests)].msg)

C16_AllFailed ==
    (ai_pc = "returned" /\ C16_AllModelErrors) =>
        /\ reply = "(AI error: all candidate models failed; last tried: "
                    \o requests[Len(requests)].model \o ")"
        /\ C16_Models(available) \subseteq C16_Requested

\* the loop is never stuck: a request in flight has a next step
C16_Progress == ai_pc = "request" => ENABLED NextAI

\* C16: within one call no model is requested twice and each retry takes a
\* model not yet tried, so the set of tried models grows with every request,
\* there is at most one request per distinct model (the first model and the
\* listed ones), the loop always has a next step and so ends; when every
\* candidate failed with a model error the call returns the "all candidate
\* models failed" message.
C16_RetryTerminates ==
    /\ [][C16_RetryStep]_vars
    /\ [](C16_NoRepeat /\ C16_AllFailed /\ C16_Progress)

C16_Witness ==
    /\ ai_pc = "returned"
    /\ Len(requests) = 3
    /\ C16_AllModelErrors
    /\ requests[1].model \notin C16_Models(available)
    /\ reply = AllFailedReply(requests[3].model)

\* the least number of a non-empty set of numbers
C17_Least(S) == CHOOSE k \in S : \A j \in S : k <= j

\* what the claim says choose_model returns for a list
C17_Expected(list) ==
    LET inPreferred == {k \in 1..Len(preferred) : preferred[k] \in C16_Models(list)}
        llamas == {k \in 1..Len(list) : Contains(Lower(list[k]), "llama")}
        mixtrals == {k \in 1..Len(list) : Contains(Lower(list[k]), "mixtral")}
    IN  IF list = << >> THEN None
        ELSE IF inPreferred # {} THEN preferred[C17_Least(inPreferred)]
        ELSE IF llamas # {} THEN list[C17_Least(llamas)]
        ELSE IF mixtrals # {} THEN list[C17_Least(mixtrals)]
        ELSE list[1]

\* C17: choose_model returns None iff the list is empty; otherwise a member of
\* the list by strict precedence: the first entry of the preferred list that
\* is in the list, else the first element with "llama" in its lower-cased
\* id, else the first with "mixtral", else the first element.
C17_ChooseModel ==
    chosen.made =>
        /\ chosen.result = C17_Expected(chosen.from)
        /\ chosen.result = None <=> chosen.from = << >>
        /\ chosen.from # << >> => chosen.result \in C16_Models(chosen.from)

C17_Witness ==
    /\ chosen.made
    /\ chosen.from = << "llama-guard-4", "llama3-8b-8192" >>
    /\ chosen.result = "llama3-8b-8192"
    /\ ai_pc = "request"

C17_WitnessLlama ==
    /\ chosen.made
    /\ chosen.from = << "Mixtral-8x22b", "Meta-Llama-Guard" >>
    /\ chosen.result = "Meta-Llama-Guard"

C17_WitnessMixtral ==
    /\ chosen.made
    /\ chosen.from = << "gemma2-9b-it", "Mixtral-8x22b" >>
    /\ chosen.result = "Mixtral-8x22b"

C17_WitnessFirst ==
    /\ chosen.made
    /\ chosen.from = << "whisper-large-v3", "gemma2-9b-it" >>
    /\ chosen.result = "whisper-large-v3"

C17_WitnessNone ==
    /\ chosen.made
    /\ chosen.from = << >>
    /\ chosen.result = None
    /\ reply = UnavailableReply

(***************************************************************************)
(* Where breaks stand in the plan.                                         *)
(***************************************************************************)
\* the input index of the last task in sorted order
C15_LastSorted == Order(tasks)[Len(tasks)]

\* after the loop the plan is left alone or gets the buffer block
C15_AfterLoopStep ==
    pc \in {"buffer", "done"} =>
        \/ plan' = plan
        \/ /\ pc = "buffer"
           /\ plan' = Append(plan, [start |-> cur, end |-> end, name |-> BufferLabel])
           /\ pc' = "done"

\* once the last task was processed the loop is over
C15_LoopOver == pc \in {"buffer", "done"} <=> (pc # "parse" /\ pc # "sort" /\ i = Len(tasks) + 1)

\* the block of the last sorted task is the last block or the one before the buffer
C15_LastTaskBlock ==
    (Done /\ tasks # << >>) =>
        \A k \in Blocks :
            origin[k] = C15_LastSorted =>
                \/ k = Len(plan)
                \/ /\ k = Len(plan) - 1
                   /\ plan[Len(plan)].name = BufferLabel
                   /\ IsBufferBlock(Len(plan))

\* C15: no break is emitted after the last task of the sorted list has been
\* processed, even when the focus counter is >= break_every and a break
\* would fit: if the last task in sorted order is placed, its block is
\* followed by nothing or by the single buffer block only.
C15_NoBreakAfterLastTask ==
    /\ [][C15_AfterLoopStep]_vars
    /\ [](C15_LoopOver /\ C15_LastTaskBlock)

C15_Witness ==
    /\ Done
    /\ tasks # << >>
    /\ Len(plan) >= 2
    /\ origin[Len(plan) - 1] = C15_LastSorted
    /\ plan[Len(plan)].name = BufferLabel
    /\ focus >= break_every
    /\ cur + break_len <= end

C15_WitnessLast ==
    /\ Done
    /\ tasks # << >>
    /\ Len(plan) >= 1
    /\ origin[Len(plan)] = C15_LastSorted
    /\ focus >= break_every

C18_IsBreak(k) == plan[k].name = BreakLabel

C18_InDomain ==
    /\ Done
    /\ break_every > 0
    /\ \A n \in 1..Len(tasks) : tasks[n].duration > 0

C18_NumTaskBlocks == Cardinality({k \in Blocks : IsTaskBlock(k)})

\* a break stands right after a task block, and the task blocks since the
\* break before it (or the window start) add up to break_every or more
C18_BreaksFollowWork ==
    \A k \in Blocks :
        C18_IsBreak(k) =>
            /\ k > 1
            /\ IsTaskBlock(k - 1)
            /\ ~C18_IsBreak(k - 1)
            /\ WorkSinceBreak(k - 1) >= break_every

C18_Max(a, b) == IF a >= b THEN a ELSE b

\* C18 as stated: the breaks are at most (number of input tasks - 1)
C18_Original ==
    C18_InDomain =>
        /\ C18_BreaksFollowWork
        /\ NumBreaks(plan) <= C18_NumTaskBlocks
        /\ NumBreaks(plan) <= Len(tasks) - 1

\* C18: in every output with break_every > 0 and positive durations each
\* break block comes right after a task block (the first block is no break,
\* no two breaks are adjacent), the breaks are at most the placed task
\* blocks and at most max(0, number of input tasks - 1), and the task blocks
\* between a break and the break before it (or the window start) last
\* break_every minutes or more in total.
C18_BreaksAfterTasks ==
    C18_InDomain =>
        /\ C18_BreaksFollowWork
        /\ NumBreaks(plan) <= C18_NumTaskBlocks
        /\ NumBreaks(plan) <= C18_Max(0, Len(tasks) - 1)

C18_Witness ==
    /\ C18_InDomain
    /\ Len(tasks) = 3
    /\ NumBreaks(plan) = 2
    /\ C18_NumTaskBlocks = 3

C18_WitnessTwoTasks ==
    /\ C18_InDomain
    /\ \E k \in Blocks :
        /\ C18_IsBreak(k)
        /\ k = 3
        /\ WorkSinceBreak(k - 1) > break_every
        /\ IsTaskBlock(k + 1)

====
